---- MODULE Spec2Model ----
(***************************************************************************)
(* Electroverse video viewer: the search-and-playback request flow of      *)
(* frontend/src/Player.jsx as mounted by frontend/src/App.jsx, and the     *)
(* play/pause/stop surface of the stand-alone player component.            *)
(*                                                                         *)
(* Text that goes on the wire (the query string) is a sequence of          *)
(* one-character strings, so that URL encoding is a real conversion.       *)
(***************************************************************************)
EXTENDS Integers, Sequences, FiniteSets, TLC

VARIABLES
    isAuthenticated,  \* AuthContext value read by Player (Player.jsx:8)
    screen,           \* what the exported App has rendered
    query,            \* useState SearchFilter (Player.jsx:12)
    searchResults,    \* useState result set (Player.jsx:11), a sequence of video_id
    videoUrl,         \* useState bound source (Player.jsx:10), NoUrl or an object URL
    videoRef,         \* videoRef.current of Player: the <video> element, if mounted
    inflight,         \* requests whose apiFetch promise has not settled
    nextId,           \* number of requests started so far, plus one
    objectUrls,       \* number of object URLs created (none is ever revoked)
    timers,           \* loads whose setTimeout callback is pending
    fired,            \* loads whose setTimeout callback has run
    played,           \* loads whose setTimeout callback called play()
    lastUrl,          \* URL of the last request handed to apiFetch
    lastSearch,       \* the search response processed last, with the reason alerted
    lastLoad,         \* the video response processed last, with the reason alerted
    surfaceRef,       \* videoRef.current of the stand-alone player
    trace             \* the last commands given to the stand-alone player

vars == <<isAuthenticated, screen, query, searchResults, videoUrl, videoRef,
          inflight, nextId, objectUrls, timers, fired, played, lastUrl,
          lastSearch, lastLoad, surfaceRef, trace>>

flowVars == <<isAuthenticated, screen, searchResults, videoUrl, videoRef,
              inflight, nextId, objectUrls, timers, fired, played,
              lastSearch, lastLoad>>

surfaceVars == <<surfaceRef, trace>>

\* A property absent from a parsed JSON object.
Undefined == "undefined"
\* useState(null): no object URL is bound.
NoUrl == 0

(***************************************************************************)
(* Bounds of the model.                                                    *)
(***************************************************************************)
MaxReq == 3
MaxTime == 10

ReqIds == 1..MaxReq

(***************************************************************************)
(* Query Builder: the SearchFilter and its serialisation.                  *)
(***************************************************************************)
K_date == <<"d","a","t","e">>
K_start_time == <<"s","t","a","r","t","_","t","i","m","e">>
K_end_time == <<"e","n","d","_","t","i","m","e">>
K_camera_id == <<"c","a","m","e","r","a","_","i","d">>
K_plate == <<"p","l","a","t","e">>

\* Object.entries(query): the keys in insertion order of the initial object.
FieldOrder == <<"date", "start_time", "end_time", "camera_id", "plate">>

KeyText(k) ==
    CASE k = "date" -> K_date
      [] k = "start_time" -> K_start_time
      [] k = "end_time" -> K_end_time
      [] k = "camera_id" -> K_camera_id
      [] k = "plate" -> K_plate

Empty == << >>

\* Values the form controls can hold (the initial value "" is Empty).
FieldValues(k) ==
    CASE k = "date" -> {Empty, <<"2","0","2","4","-","0","1","-","0","5">>}
      [] k = "start_time" -> {Empty, <<"1","0",":","3","0",":","0","0">>}
      [] k = "end_time" -> {Empty, <<"2","3",":","5","9",":","5","9">>}
      [] k = "camera_id" -> {Empty, <<"1">>, <<"2">>, <<"3">>}
      [] k = "plate" -> {Empty, <<"A","B"," ","1","2">>, <<"A","&","B","=","1","+","%">>}

EmptyQuery == [date |-> Empty, start_time |-> Empty, end_time |-> Empty,
               camera_id |-> Empty, plate |-> Empty]

\* application/x-www-form-urlencoded byte serialisation of one character.
EncodeChar(c) ==
    CASE c = " " -> <<"+">>
      [] c = ":" -> <<"%","3","A">>
      [] c = "&" -> <<"%","2","6">>
      [] c = "=" -> <<"%","3","D">>
      [] c = "+" -> <<"%","2","B">>
      [] c = "%" -> <<"%","2","5">>
      [] OTHER -> <<c>>

RECURSIVE Encode(_)
Encode(s) == IF s = << >> THEN << >> ELSE EncodeChar(Head(s)) \o Encode(Tail(s))

\* Faulty variant: every field is appended, empty or not.
AppendsField_Always(v) == TRUE

\* if (v) params.append(k, v): the empty string is the only falsy field value.
AppendsField(v) == v # Empty

RECURSIVE AppendEntries(_, _)
AppendEntries(q, ks) ==
    IF ks = << >> THEN << >>
    ELSE LET k == Head(ks)
             rest == AppendEntries(q, Tail(ks))
         IN  IF AppendsField(q[k]) THEN << <<KeyText(k), q[k]>> >> \o rest ELSE rest

\* new URLSearchParams() filled by Object.entries(query).forEach(...).
Params(q) == AppendEntries(q, FieldOrder)

RECURSIVE ParamsToString(_)
ParamsToString(ps) ==
    IF ps = << >> THEN << >>
    ELSE Encode(Head(ps)[1]) \o <<"=">> \o Encode(Head(ps)[2])
         \o (IF Len(ps) > 1 THEN <<"&">> ELSE << >>) \o ParamsToString(Tail(ps))

SearchPath == <<"/","s","e","a","r","c","h","?">>

\* '/search?' + params.toString()
SearchUrl(q) == SearchPath \o ParamsToString(Params(q))

(***************************************************************************)
(* Rendering.  The exported App renders Player directly; InnerApp, which   *)
(* chooses between SignInCard and Player, is defined but never mounted.    *)
(***************************************************************************)
\* Player's return value: the gate at Player.jsx:52-54, else the search UI.
Player(auth) == IF ~auth THEN "PleaseSignIn" ELSE "PlayerUI"

InnerApp(auth) == IF ~auth THEN "SignInCard" ELSE Player(auth)

App(auth) == Player(auth)

Unmounted == [mounted |-> FALSE, src |-> NoUrl, paused |-> TRUE]

\* The <video> element exists iff Player renders its UI and videoUrl is truthy;
\* binding another src to a mounted element reloads it, which leaves it paused.
RenderVideo(auth, url, el) ==
    IF ~auth \/ url = NoUrl THEN Unmounted
    ELSE IF el.mounted /\ el.src = url THEN el
    ELSE [mounted |-> TRUE, src |-> url, paused |-> TRUE]

\* HTMLMediaElement.play(): the paused attribute becomes false.
Play(el) == [el EXCEPT !.paused = FALSE]

(***************************************************************************)
(* Responses of the backend, as apiFetch settles them.                     *)
(***************************************************************************)
NoBody == [type |-> "none", message |-> Undefined, error |-> Undefined, items |-> << >>]
Unreadable == [NoBody EXCEPT !.type = "unreadable"]
JsonNull == [NoBody EXCEPT !.type = "null"]
JsonObject(m, e) == [type |-> "object", message |-> m, error |-> e, items |-> << >>]
JsonArray(s) == [type |-> "array", message |-> Undefined, error |-> Undefined, items |-> s]

ResultArrays == {<< >>, <<1>>, <<1, 2>>, <<2, 1>>}

Rejected == [net |-> "reject", ok |-> FALSE, body |-> NoBody]
Response(ok, body) == [net |-> "response", ok |-> ok, body |-> body]

SearchResponses ==
    {Rejected}
    \cup {Response(FALSE, b) : b \in
            {Unreadable, JsonNull, JsonArray(<<1>>),
             JsonObject(Undefined, Undefined), JsonObject("bad date", Undefined),
             JsonObject(Undefined, "no such camera"),
             JsonObject("bad date", "no such camera"),
             JsonObject("", "no such camera")}}
    \cup {Response(TRUE, b) : b \in
            {Unreadable, JsonNull, JsonObject(Undefined, Undefined)}
            \cup {JsonArray(s) : s \in ResultArrays}}

TextBody(t) == [type |-> "text", message |-> t, error |-> Undefined, items |-> << >>]
BlobBody == [NoBody EXCEPT !.type = "blob"]

VideoResponses ==
    {Rejected}
    \cup {Response(FALSE, b) : b \in {Unreadable, TextBody(""), TextBody("video not found")}}
    \cup {Response(TRUE, b) : b \in {Unreadable, BlobBody}}

NoAlert == "(no alert)"

\* JavaScript truthiness of an optional string property.
Truthy(s) == s # Undefined /\ s # ""

(***************************************************************************)
(* performSearch after "await apiFetch" (Player.jsx:20-31): the result set *)
(* it leaves and the reason it alerts.                                     *)
(***************************************************************************)
\* res.json().catch(() => ({})): an unreadable body becomes the empty object.
ErrPayload(body) == IF body.type = "unreadable" THEN JsonObject(Undefined, Undefined) ELSE body

\* Faulty variant: the result set is cleared before the outcome is known.
SearchOutcome_ClearsFirst(resp, old) ==
    IF resp.net = "response" /\ resp.ok /\ resp.body.type # "unreadable"
    THEN [results |-> IF resp.body.type = "array" THEN resp.body.items ELSE << >>,
          alert |-> NoAlert]
    ELSE [results |-> << >>, alert |-> "Network error"]

\* Faulty variant: a successful response is appended to the result set.
SearchOutcome_Appends(resp, old) ==
    IF resp.net = "response" /\ resp.ok /\ resp.body.type # "unreadable"
    THEN [results |-> old \o (IF resp.body.type = "array" THEN resp.body.items ELSE << >>),
          alert |-> NoAlert]
    ELSE [results |-> old, alert |-> "Network error"]

\* Faulty variant: once results are shown, later responses are dropped.
SearchOutcome_KeepsFirst(resp, old) ==
    IF resp.net = "response" /\ resp.ok /\ resp.body.type # "unreadable"
    THEN [results |-> IF old # << >> THEN old
                      ELSE IF resp.body.type = "array" THEN resp.body.items ELSE << >>,
          alert |-> NoAlert]
    ELSE [results |-> old, alert |-> "Network error"]

SearchOutcome(resp, old) ==
    IF resp.net = "reject"
    THEN [results |-> old, alert |-> "Network error"]
    ELSE IF ~resp.ok
    THEN LET err == ErrPayload(resp.body)
         IN  IF err.type = "null"
             \* err.message on null throws; the catch at line 29 alerts
             THEN [results |-> old, alert |-> "Network error"]
             ELSE [results |-> old,
                   alert |-> IF Truthy(err.message) THEN err.message
                             ELSE IF Truthy(err.error) THEN err.error
                             ELSE "Search failed"]
    ELSE IF resp.body.type = "unreadable"
    \* await res.json() throws; the catch at line 29 alerts
    THEN [results |-> old, alert |-> "Network error"]
    ELSE [results |-> IF resp.body.type = "array" THEN resp.body.items ELSE << >>,
          alert |-> NoAlert]

(***************************************************************************)
(* loadVideo after "await apiFetch" (Player.jsx:36-49).                    *)
(***************************************************************************)
\* Faulty variant: a source already bound is kept when another load succeeds.
LoadOutcome_KeepsFirst(resp, old, fresh) ==
    IF resp.net = "response" /\ resp.ok /\ resp.body.type # "unreadable"
    THEN [url |-> IF old # NoUrl THEN old ELSE fresh, bound |-> TRUE, alert |-> NoAlert]
    ELSE [url |-> old, bound |-> FALSE, alert |-> "Network error"]

\* fresh is the object URL that URL.createObjectURL would return.
LoadOutcome(resp, old, fresh) ==
    IF resp.net = "reject"
    THEN [url |-> old, bound |-> FALSE, alert |-> "Network error"]
    ELSE IF ~resp.ok
    THEN IF resp.body.type = "unreadable"
         \* await res.text() throws; the catch at line 47 alerts
         THEN [url |-> old, bound |-> FALSE, alert |-> "Network error"]
         ELSE [url |-> old, bound |-> FALSE,
               alert |-> IF Truthy(resp.body.message) THEN resp.body.message
                         ELSE "Failed to load video"]
    ELSE IF resp.body.type = "unreadable"
    \* await res.blob() throws; the catch at line 47 alerts
    THEN [url |-> old, bound |-> FALSE, alert |-> "Network error"]
    ELSE [url |-> fresh, bound |-> TRUE, alert |-> NoAlert]

(***************************************************************************)
(* Initial state: Player just mounted by App.                              *)
(***************************************************************************)
\* History of the response processed last: the request's id, the response, the
\* reason alerted, the state it found, and the highest id processed with success.
NoSearch == [id |-> 0, resp |-> Rejected, alert |-> NoAlert, maxOk |-> 0, before |-> << >>]
NoLoad == [id |-> 0, resp |-> Rejected, alert |-> NoAlert, maxOk |-> 0, before |-> NoUrl]

SurfaceUnmounted == [mounted |-> FALSE, paused |-> TRUE, currentTime |-> 0]

InitCommon ==
    /\ searchResults = << >>
    /\ videoUrl = NoUrl
    /\ videoRef = Unmounted
    /\ inflight = {}
    /\ nextId = 1
    /\ objectUrls = 0
    /\ timers = {}
    /\ fired = {}
    /\ played = {}
    /\ lastUrl = << >>
    /\ lastSearch = NoSearch
    /\ lastLoad = NoLoad
    /\ surfaceRef = SurfaceUnmounted
    /\ trace = << >>

Init ==
    /\ isAuthenticated \in BOOLEAN
    /\ screen = App(isAuthenticated)
    /\ query = EmptyQuery
    /\ InitCommon

(***************************************************************************)
(* Session/Identity Provider: owns login and logout; Player re-renders.    *)
(***************************************************************************)
SetAuth(a) ==
    /\ isAuthenticated' = a
    /\ screen' = App(a)
    /\ videoRef' = RenderVideo(a, videoUrl, videoRef)
    /\ UNCHANGED <<query, searchResults, videoUrl, inflight, nextId, objectUrls,
                   timers, fired, played, lastUrl, lastSearch, lastLoad, surfaceVars>>

Login == ~isAuthenticated /\ SetAuth(TRUE)

Logout == isAuthenticated /\ SetAuth(FALSE)

(***************************************************************************)
(* Player's handlers.                                                      *)
(***************************************************************************)
\* onSubmit of the search form, up to "await apiFetch".
PerformSearch ==
    /\ screen = "PlayerUI"
    /\ nextId <= MaxReq
    /\ inflight' = inflight \cup {[id |-> nextId, kind |-> "search", video_id |-> 0]}
    /\ nextId' = nextId + 1
    /\ lastUrl' = SearchUrl(query)
    /\ UNCHANGED <<isAuthenticated, screen, query, searchResults, videoUrl, videoRef,
                   objectUrls, timers, fired, played, lastSearch, lastLoad, surfaceVars>>

\* the rest of performSearch, once the request has settled.
SearchSettles ==
    \E r \in inflight : \E resp \in SearchResponses :
        LET out == SearchOutcome(resp, searchResults)
            okId == IF out.alert = NoAlert /\ r.id > lastSearch.maxOk
                    THEN r.id ELSE lastSearch.maxOk
        IN  /\ r.kind = "search"
            /\ inflight' = inflight \ {r}
            /\ searchResults' = out.results
            /\ lastSearch' = [id |-> r.id, resp |-> resp, alert |-> out.alert,
                              maxOk |-> okId, before |-> searchResults]
            /\ UNCHANGED <<isAuthenticated, screen, query, videoUrl, videoRef, nextId,
                           objectUrls, timers, fired, played, lastUrl, lastLoad,
                           surfaceVars>>

InResults(v) == \E i \in 1..Len(searchResults) : searchResults[i] = v

\* onClick of a result's Load button, up to "await apiFetch".
LoadVideo ==
    \E v \in {1, 2} :
        /\ screen = "PlayerUI"
        /\ InResults(v)
        /\ nextId <= MaxReq
        /\ inflight' = inflight \cup {[id |-> nextId, kind |-> "video", video_id |-> v]}
        /\ nextId' = nextId + 1
        /\ lastUrl' = <<"/","v","i","d","e","o","/","d","e","c","r","y","p","t","e","d","/">>
                      \o <<ToString(v)>>
        /\ UNCHANGED <<isAuthenticated, screen, query, searchResults, videoUrl, videoRef,
                       objectUrls, timers, fired, played, lastSearch, lastLoad,
                       surfaceVars>>

\* the rest of loadVideo, once the request has settled.
LoadSettles ==
    \E r \in inflight : \E resp \in VideoResponses :
        LET out == LoadOutcome(resp, videoUrl, objectUrls + 1)
            okId == IF out.bound /\ r.id > lastLoad.maxOk THEN r.id ELSE lastLoad.maxOk
        IN  /\ r.kind = "video"
            /\ inflight' = inflight \ {r}
            /\ objectUrls' = IF out.bound THEN objectUrls + 1 ELSE objectUrls
            /\ videoUrl' = out.url
            /\ videoRef' = RenderVideo(isAuthenticated, out.url, videoRef)
            /\ timers' = IF out.bound THEN timers \cup {r.id} ELSE timers
            /\ lastLoad' = [id |-> r.id, resp |-> resp, alert |-> out.alert,
                            maxOk |-> okId, before |-> videoUrl]
            /\ UNCHANGED <<isAuthenticated, screen, query, searchResults, nextId, fired,
                           played, lastUrl, lastSearch, surfaceVars>>

\* Faulty variant: the callback never calls play().
DelayedPlay_Never(el) == el

\* setTimeout(() => videoRef.current && videoRef.current.play(), 100)
DelayedPlay(el) == IF el.mounted THEN Play(el) ELSE el

TimerFires ==
    \E id \in timers :
        /\ timers' = timers \ {id}
        /\ fired' = fired \cup {id}
        /\ played' = IF videoRef.mounted THEN played \cup {id} ELSE played
        /\ videoRef' = DelayedPlay(videoRef)
        /\ UNCHANGED <<isAuthenticated, screen, query, searchResults, videoUrl, inflight,
                       nextId, objectUrls, lastUrl, lastSearch, lastLoad, surfaceVars>>

\* the element's native controls (the controls attribute): play or pause.
NativeControls ==
    /\ videoRef.mounted
    /\ videoRef' = [videoRef EXCEPT !.paused = ~videoRef.paused]
    /\ UNCHANGED <<isAuthenticated, screen, query, searchResults, videoUrl, inflight,
                   nextId, objectUrls, timers, fired, played, lastUrl, lastSearch,
                   lastLoad, surfaceVars>>

Next ==
    \/ Login
    \/ Logout
    \/ PerformSearch
    \/ SearchSettles
    \/ LoadVideo
    \/ LoadSettles
    \/ TimerFires
    \/ NativeControls

Spec == Init /\ [][Next]_vars

(***************************************************************************)
(* Query Builder on its own: the form's onChange handlers and submission.  *)
(***************************************************************************)
\* onChange of one form control: setQuery({ ...query, [k]: e.target.value }).
SetQuery ==
    \E i \in 1..Len(FieldOrder) : \E v \in FieldValues(FieldOrder[i]) :
        /\ screen = "PlayerUI"
        /\ v # query[FieldOrder[i]]
        /\ query' = [query EXCEPT ![FieldOrder[i]] = v]
        /\ UNCHANGED <<flowVars, lastUrl, surfaceVars>>

InitQuery ==
    /\ isAuthenticated = TRUE
    /\ screen = App(isAuthenticated)
    /\ query = EmptyQuery
    /\ InitCommon

NextQuery ==
    \/ SetQuery
    \/ PerformSearch

SpecQuery == InitQuery /\ [][NextQuery]_vars

(***************************************************************************)
(* The stand-alone player (unnamed/part_000): one <video> with a fixed     *)
(* source and the Play / Pause and Stop buttons.                           *)
(***************************************************************************)
SurfaceState(el) ==
    IF ~el.mounted THEN "Empty" ELSE IF el.paused THEN "Paused" ELSE "Playing"

\* video.play(): playback starts; from the end of the media it restarts at 0.
PlayEl(el) ==
    [el EXCEPT !.paused = FALSE,
               !.currentTime = IF el.currentTime = MaxTime THEN 0 ELSE @]

\* video.pause()
PauseEl(el) == [el EXCEPT !.paused = TRUE]

\* Faulty variant: the else branch is missing, so a playing video is not paused.
PlayPauseEl_NeverPauses(el) == IF el.paused THEN PlayEl(el) ELSE el

\* playPause (part_000:6-13)
PlayPauseEl(el) == IF el.paused THEN PlayEl(el) ELSE PauseEl(el)

\* stopVideo (part_000:15-19)
StopEl(el) == [PauseEl(el) EXCEPT !.currentTime = 0]

Record(cmd) ==
    LET e == [cmd |-> cmd, before |-> SurfaceState(surfaceRef),
              at |-> surfaceRef.currentTime]
    IN  IF Len(trace) < 2 THEN Append(trace, e) ELSE <<trace[2], e>>

\* React commits the <video ref={videoRef} src="/video.mp4"> and the buttons.
Mount ==
    /\ ~surfaceRef.mounted
    /\ surfaceRef' = [mounted |-> TRUE, paused |-> TRUE, currentTime |-> 0]
    /\ trace' = Record("mount")
    /\ UNCHANGED <<flowVars, query, lastUrl>>

PlayPause ==
    /\ surfaceRef.mounted
    /\ surfaceRef' = PlayPauseEl(surfaceRef)
    /\ trace' = Record("playPause")
    /\ UNCHANGED <<flowVars, query, lastUrl>>

StopVideo ==
    /\ surfaceRef.mounted
    /\ surfaceRef' = StopEl(surfaceRef)
    /\ trace' = Record("stop")
    /\ UNCHANGED <<flowVars, query, lastUrl>>

\* playback advances; at the end of the media the element pauses itself.
Tick ==
    /\ surfaceRef.mounted
    /\ ~surfaceRef.paused
    /\ surfaceRef.currentTime < MaxTime
    /\ surfaceRef' = [surfaceRef EXCEPT !.currentTime = @ + 1,
                                        !.paused = (surfaceRef.currentTime + 1 = MaxTime)]
    /\ trace' = Record("tick")
    /\ UNCHANGED <<flowVars, query, lastUrl>>

InitSurface ==
    /\ isAuthenticated = FALSE
    /\ screen = App(isAuthenticated)
    /\ query = EmptyQuery
    /\ InitCommon

NextSurface ==
    \/ Mount
    \/ PlayPause
    \/ StopVideo
    \/ Tick

SpecSurface == InitSurface /\ [][NextSurface]_vars

(***************************************************************************)
(* Properties.                                                             *)
(***************************************************************************)
\* The timer queue of the browser runs every callback that is due.
FairSpec == Spec /\ WF_vars(TimerFires)

\* A request that ended in failure: no response, a non-success response, or
\* a response whose body could not be read.
Failed(resp) == resp.net = "reject" \/ ~resp.ok \/ resp.body.type = "unreadable"

SearchSettled == lastSearch' # lastSearch
LoadSettled == lastLoad' # lastLoad

\* C1: while isAuthenticated is false, no search and no load can be started
\* and the screen shown is the sign-in form (SignInCard).
C1_SignInIsTheOnlyPath ==
    ~isAuthenticated =>
        /\ ~ENABLED PerformSearch
        /\ ~ENABLED LoadVideo
        /\ screen = "SignInCard"

\* C2: a performSearch or loadVideo that ends in failure leaves the result
\* set and the bound playback source (and the element showing it) as they were.
C2_FailureKeepsState ==
    [][ (\/ SearchSettled /\ Failed(lastSearch'.resp)
         \/ LoadSettled /\ Failed(lastLoad'.resp))
        => /\ searchResults' = searchResults
           /\ videoUrl' = videoUrl
           /\ videoRef' = videoRef ]_vars

C2_Witness ==
    /\ lastLoad.id > 0
    /\ Failed(lastLoad.resp)
    /\ lastLoad.before # NoUrl
    /\ videoUrl = lastLoad.before
    /\ searchResults # << >>

\* C3: overlapping searches are neither coalesced nor cancelled; whenever the
\* response processed last is a successful sequence, the result set is that
\* sequence, also when its request was submitted before one already processed.
C3_LastProcessedWins ==
    /\ Cardinality({r.id : r \in inflight}) = Cardinality(inflight)
    /\ \A r \in inflight : r.id < nextId
    /\ (/\ lastSearch.id > 0
        /\ ~Failed(lastSearch.resp)
        /\ lastSearch.resp.body.type = "array")
       => searchResults = lastSearch.resp.body.items

C3_Witness ==
    /\ lastSearch.id < lastSearch.maxOk
    /\ ~Failed(lastSearch.resp)
    /\ lastSearch.resp.body.type = "array"
    /\ lastSearch.before = <<2, 1>>
    /\ searchResults = <<1, 2>>

\* Reading a query string back, as the backend does.
FirstIndex(s, c) ==
    IF \E i \in 1..Len(s) : s[i] = c
    THEN CHOOSE i \in 1..Len(s) : s[i] = c /\ \A j \in 1..(i - 1) : s[j] # c
    ELSE 0

RECURSIVE SplitOn(_, _)
SplitOn(s, c) ==
    LET i == FirstIndex(s, c)
    IN  IF i = 0 THEN <<s>>
        ELSE <<SubSeq(s, 1, i - 1)>> \o SplitOn(SubSeq(s, i + 1, Len(s)), c)

Unhex(a, b) ==
    CASE <<a, b>> = <<"3", "A">> -> ":"
      [] <<a, b>> = <<"2", "6">> -> "&"
      [] <<a, b>> = <<"3", "D">> -> "="
      [] <<a, b>> = <<"2", "B">> -> "+"
      [] <<a, b>> = <<"2", "5">> -> "%"
      [] OTHER -> "?"

RECURSIVE Decode(_)
Decode(s) ==
    IF s = << >> THEN << >>
    ELSE IF Head(s) = "+" THEN <<" ">> \o Decode(Tail(s))
    ELSE IF Head(s) = "%" /\ Len(s) >= 3
    THEN <<Unhex(s[2], s[3])>> \o Decode(SubSeq(s, 4, Len(s)))
    ELSE <<Head(s)>> \o Decode(Tail(s))

ParseQueryString(qs) ==
    IF qs = << >> THEN << >>
    ELSE LET segs == SplitOn(qs, "&")
         IN  [i \in 1..Len(segs) |->
                LET j == FirstIndex(segs[i], "=")
                IN  IF j = 0 THEN <<Decode(segs[i]), << >> >>
                    ELSE <<Decode(SubSeq(segs[i], 1, j - 1)),
                           Decode(SubSeq(segs[i], j + 1, Len(segs[i])))>>]

NonEmptyFields(q) == SelectSeq(FieldOrder, LAMBDA k : q[k] # Empty)

ExpectedParams(q) ==
    [i \in 1..Len(NonEmptyFields(q)) |->
        <<KeyText(NonEmptyFields(q)[i]), q[NonEmptyFields(q)[i]]>>]

\* C4: the URL performSearch sends is /search? followed by a query string
\* that reads back as exactly the non-empty fields with their values, in the
\* order date, start_time, end_time, camera_id, plate; for the all-empty
\* filter nothing follows the question mark.
C4_QueryHoldsNonEmptyFields ==
    [][ nextId' # nextId
        => /\ Len(lastUrl') >= Len(SearchPath)
           /\ SubSeq(lastUrl', 1, Len(SearchPath)) = SearchPath
           /\ ParseQueryString(SubSeq(lastUrl', Len(SearchPath) + 1, Len(lastUrl')))
                = ExpectedParams(query)
           /\ (query = EmptyQuery => lastUrl' = SearchPath) ]_vars

C4_Witness ==
    /\ query.date = Empty
    /\ query.camera_id = <<"2">>
    /\ lastUrl = SearchPath
                 \o <<"s","t","a","r","t","_","t","i","m","e","=",
                      "1","0","%","3","A","3","0","%","3","A","0","0","&">>
                 \o <<"p","l","a","t","e","=",
                      "A","%","2","6","B","%","3","D","1","%","2","B","%","2","5">>

BackendReason(body) ==
    IF body.type = "object" /\ Truthy(body.message) THEN body.message
    ELSE IF body.type = "object" /\ Truthy(body.error) THEN body.error
    ELSE "Search failed"

\* C6: the reason a search alerts follows the failure class: "Network error"
\* exactly when no response was reached; for a non-success response the
\* payload's message, else its error, else "Search failed".
C6_ReasonFollowsFailureClass ==
    lastSearch.id > 0 =>
        /\ (lastSearch.alert = "Network error") <=> (lastSearch.resp.net = "reject")
        /\ (lastSearch.resp.net = "response" /\ ~lastSearch.resp.ok)
           => lastSearch.alert = BackendReason(lastSearch.resp.body)

\* C7 as stated: every successful load is followed by a play command, so once
\* the delayed callback of a load has run, play has been called for that load.
C7_EveryLoadIsPlayed == \A id \in fired : id \in played

\* C7 amended: a successful load binds its source, leaving the element (when
\* signed in) paused on that source, and schedules its callback; the callback
\* eventually runs; when it runs while the user is signed in it calls play()
\* and the surface is Playing.
C7_PlaysWhenSignedIn ==
    /\ [][ (LoadSettled /\ ~Failed(lastLoad'.resp))
           => /\ videoUrl' # NoUrl
              /\ lastLoad'.id \in timers'
              /\ isAuthenticated
                 => (videoRef'.mounted /\ videoRef'.src = videoUrl' /\ videoRef'.paused) ]_vars
    /\ [][ \A id \in ReqIds :
              (id \in fired' /\ id \notin fired /\ isAuthenticated)
              => (id \in played' /\ videoRef'.mounted /\ ~videoRef'.paused) ]_vars
    /\ \A id \in ReqIds : (id \in timers) ~> (id \in fired)

C7_Witness ==
    /\ Cardinality(played) = 2
    /\ timers = {}
    /\ videoRef.mounted
    /\ ~videoRef.paused

\* C8: the source bound is the one created by the successful load processed
\* last, whatever the order of submission, and the mounted element shows it.
C8_LastLoadIsBound ==
    /\ videoUrl = objectUrls
    /\ videoRef.mounted => videoRef.src = videoUrl
    /\ videoRef.mounted <=> (isAuthenticated /\ videoUrl # NoUrl)

C8_Witness ==
    /\ lastLoad.id < lastLoad.maxOk
    /\ ~Failed(lastLoad.resp)
    /\ lastLoad.before = 1
    /\ videoUrl = 2
    /\ videoRef.mounted
    /\ videoRef.src = 2

\* C9: playPause moves Paused to Playing and Playing to Paused, so two in a
\* row from Paused end Paused; stop ends Paused at position 0; no command is
\* given while the surface is Empty.
C9_SurfaceStateMachine ==
    trace # << >> =>
        LET last == trace[Len(trace)]
            now == SurfaceState(surfaceRef)
        IN  /\ (last.cmd = "playPause" /\ last.before = "Paused") => now = "Playing"
            /\ (last.cmd = "playPause" /\ last.before = "Playing") => now = "Paused"
            /\ last.cmd = "stop" => (now = "Paused" /\ surfaceRef.currentTime = 0)
            /\ last.cmd \in {"playPause", "stop"} => last.before # "Empty"
            /\ (/\ Len(trace) = 2
                /\ trace[1].cmd = "playPause"
                /\ trace[1].before = "Paused"
                /\ last.cmd = "playPause")
               => now = "Paused"

C9_Witness ==
    /\ Len(trace) = 2
    /\ trace[1].cmd = "playPause"
    /\ trace[1].before = "Paused"
    /\ trace[1].at > 0
    /\ trace[2].cmd = "playPause"
    /\ SurfaceState(surfaceRef) = "Paused"

\* C10: the result set is replaced and a source is bound only while
\* isAuthenticated is true.
C10_NoUpdateWhileSignedOut ==
    [][ (searchResults' # searchResults \/ videoUrl' # videoUrl)
        => isAuthenticated ]_vars

====
